---- MODULE Spec2Model ----
(***************************************************************************)
(* Model of the dotfile watcher (src/dotfile_watcher.py): the debounced    *)
(* per-directory commit scheduler of GitCommitHandler, its commit          *)
(* sequences, the shutdown drain, the periodic remote poll and the pure    *)
(* functions the two use.                                                  *)
(*                                                                         *)
(* Threads: the main thread (main(), cleanup), the observer's dispatch     *)
(* thread (on_* handlers, schedule_commit) and one thread per              *)
(* threading.Timer created by schedule_commit or start_fetch_timer.        *)
(* timer_lock is a threading.Lock: not re-entrant, no owner.               *)
(*                                                                         *)
(* The poll cycle touches neither the batch map, the timer map nor         *)
(* timer_lock, so the scheduler and the poller are explored in             *)
(* specifications of their own (Spec, PollSpec) and together, with fewer   *)
(* changes, in WatchSpec.  The event handlers, with the classifier and the *)
(* ignore rules they load, are explored in HandlerSpec.                    *)
(*                                                                         *)
(* Time is kept relative: every timer carries the ticks that remain until  *)
(* its interval has passed, saturating at 0, so that the clock needs no     *)
(* bound.  Timer i is the one created when change i was recorded, so its    *)
(* remaining ticks also tell how long ago change i was recorded.            *)
(*                                                                         *)
(* The module-level names COMMIT_DELAY and FETCH_INTERVAL that the class   *)
(* reads are taken to be bound (to the configured commit_delay and         *)
(* fetch_interval); the quiet period is scaled to COMMIT_DELAY ticks.      *)
(***************************************************************************)
EXTENDS Naturals, Sequences, FiniteSets, TLC

\* ---------------------------------------------------------------- bounds
MaxChanges == 3          \* changes recorded in one behaviour
MaxCycles == 2           \* poll cycles begun in one behaviour
MaxBatch == 3            \* changes in a batch a commit message is made for
MaxDepth == 3            \* components of a path below its repository root
MaxHandled == 2          \* changes the event handlers pass on in one behaviour

\* The quiet period (config commit_delay, 60 seconds), counted in ticks of half
\* a quiet period.
COMMIT_DELAY == 2

\* The poll interval (config fetch_interval, 600 seconds), in ticks of its own
\* scale: file events arrive at any time relative to the poll timer, so the
\* ratio of the two intervals rules out no interleaving.
FETCH_INTERVAL == 1

\* ------------------------------------------------------- watched targets
\* Paths are sequences of components.
repo_dir == <<"dotfiles">>
submodules == << <<"dotfiles", "nvim">>, <<"dotfiles", "zsh">> >>
\* the file events the observer delivers: path and event kind
Events == { [src_path |-> <<"dotfiles", "bashrc">>, event_type |-> "modified"],
            [src_path |-> <<"dotfiles", "nvim", "init.lua">>, event_type |-> "created"] }

is_relative_to(p, d) == Len(d) <= Len(p) /\ SubSeq(p, 1, Len(d)) = d

\* a slip: no file is taken to be in a submodule
is_in_submodule_never(file_path) == FALSE

is_in_submodule(file_path) ==
    \E i \in 1..Len(submodules) : is_relative_to(file_path, submodules[i])

\* the first submodule, in discovery order, that contains the file
get_submodule_for_file(file_path) ==
    LET hits == {i \in 1..Len(submodules) : is_relative_to(file_path, submodules[i])}
    IN  submodules[CHOOSE i \in hits : \A j \in hits : i <= j]

Keys == {repo_dir} \cup {submodules[i] : i \in 1..Len(submodules)}

\* ---------------------------------------------------------------- threads
Main == <<"main", 0>>
Event == <<"event", 0>>
Tm(i) == <<"timer", i>>
Free == <<"free", 0>>
Threads == {Main, Event} \cup {Tm(i) : i \in 1..MaxChanges}

VARIABLES
    pending_commits,   \* dir_key -> [target_dir, commit_type, changes]
    commit_timers,     \* dir_key -> timer id
    timer_lock,        \* the thread inside `with self.timer_lock`, or Free
    fetch_timer,       \* self.fetch_timer: the poll Timer object created last
    fetch_timers,      \* the poll Timer objects created so far:
                       \*   [remaining, finished, pc]
    poll,              \* timer id -> locals of the _periodic_fetch call in progress
    polled,            \* history: what the poll cycle begun last did
    probe,             \* a pure function applied to an input: [op, in, out]
    timers,            \* the Timer objects created so far: [key, remaining, finished]
    pc,                \* position of every thread
    call,              \* arguments of the dispatch thread's schedule_commit call
    cleanup_iter,      \* cleanup's iteration over commit_timers.items()
    cmds,              \* commands issued so far by the commit sequence in progress
    commits,           \* history: the commit sequences started so far
    recorded,          \* history: the changes recorded (appended to a batch) so far
    gitignore_patterns, \* self.gitignore_patterns: repository root -> pattern list
    gitignore_files,   \* the file system: repository root -> its .gitignore file
    event,             \* the event the dispatch thread's handler was called with
    respect_gitignore  \* self.config['respect_gitignore']

vars == <<pending_commits, commit_timers, timer_lock, fetch_timer, timers, pc,
          call, cleanup_iter, cmds, commits, recorded, fetch_timers, poll, polled,
          probe, gitignore_patterns, gitignore_files, event, respect_gitignore>>

\* what the event handlers read and write besides the scheduler
handling == <<gitignore_patterns, gitignore_files, event, respect_gitignore>>

NoCall == [id |-> 0]
NoProbe == [op |-> "none"]
NoEvent == [event_type |-> "none"]

\* a .gitignore file of a repository root: absent, or present with its lines;
\* a present file may be one that open() fails on
NoFile == [state |-> "absent", lines |-> << >>]

\* start_fetch_timer: a Timer with the full poll interval, started
NewFetchTimer == [remaining |-> FETCH_INTERVAL, finished |-> FALSE, pc |-> "wait"]
NoIter == [todo |-> {}, size |-> 0, key |-> <<>>]

Init ==
    /\ pending_commits = << >>
    /\ commit_timers = << >>
    /\ timer_lock = Free
    /\ fetch_timer = 1
    /\ fetch_timers = << NewFetchTimer >>
    /\ poll = << >>
    /\ polled = << >>
    /\ probe = NoProbe
    /\ timers = << >>
    /\ pc = [th \in Threads |->
               IF th = Main THEN "run" ELSE IF th = Event THEN "idle" ELSE "unborn"]
    /\ call = NoCall
    /\ cleanup_iter = NoIter
    /\ cmds = << >>
    /\ commits = << >>
    /\ recorded = << >>
    /\ gitignore_patterns = << >>
    /\ gitignore_files = [root \in Keys |-> NoFile]
    /\ event = NoEvent
    /\ respect_gitignore = TRUE

\* ------------------------------------------------------------------ time
Dec(n) == IF n = 0 THEN 0 ELSE n - 1

Tick ==
    /\ timers' = [i \in DOMAIN timers |->
                    [timers[i] EXCEPT !.remaining = Dec(timers[i].remaining)]]
    /\ fetch_timers' = [i \in DOMAIN fetch_timers |->
                    [fetch_timers[i] EXCEPT !.remaining = Dec(fetch_timers[i].remaining)]]
    /\ UNCHANGED <<pending_commits, commit_timers, timer_lock, fetch_timer, pc,
                   call, cleanup_iter, cmds, commits, recorded>>
    /\ UNCHANGED <<poll, polled, probe, handling>>

\* ------------------------------------------------------------- map helpers
Put(m, k, v) == [x \in DOMAIN m \cup {k} |-> IF x = k THEN v ELSE m[x]]
Pop(m, k) == [x \in DOMAIN m \ {k} |-> m[x]]
Range(s) == {s[i] : i \in DOMAIN s}
Last(s) == s[Len(s)]

\* ------------------------------------------------------------------ record
\* Timer.cancel(): sets the timer's finished event.  A timer whose thread has
\* already passed the finished check is not stopped by it.
cancel(ts, i) == [ts EXCEPT ![i].finished = TRUE]

\* the quiet period has passed since change c was recorded
Elapsed(c) == timers[c].remaining = 0

\* the change recorded last for the key, 0 if none
PrevChange(key) ==
    LET same == {i \in DOMAIN recorded : recorded[i].key = key}
    IN  IF same = {} THEN 0 ELSE CHOOSE i \in same : \A j \in same : j <= i

\* schedule_commit, up to the lock: the target directory and commit kind of
\* the path are determined and the dispatch thread waits for timer_lock.
ScheduleCall(file_path, event_type) ==
    /\ pc[Main] = "run"
    /\ pc[Event] = "idle"
    /\ Len(recorded) < MaxChanges
    /\ LET in_sub == is_in_submodule(file_path)
           target_dir == IF in_sub THEN get_submodule_for_file(file_path) ELSE repo_dir
           commit_type == IF in_sub THEN "submodule" ELSE "main"
           id == Len(recorded) + 1
       IN  call' = [id |-> id, file_path |-> file_path, event_type |-> event_type,
                    target_dir |-> target_dir, commit_type |-> commit_type]
    /\ pc' = [pc EXCEPT ![Event] = "sched_lock"]
    /\ UNCHANGED <<pending_commits, commit_timers, timer_lock, fetch_timer, timers,
                   cleanup_iter, cmds, commits, recorded>>
    /\ UNCHANGED <<fetch_timers, poll, polled, probe, handling>>

\* schedule_commit: an exception raised while the target directory is
\* determined is caught by the handler's except clause and logged; the call
\* returns without a change recorded.
ScheduleRaise ==
    /\ pc[Event] = "sched_lock"
    /\ pc' = [pc EXCEPT ![Event] = "idle"]
    /\ call' = NoCall
    /\ UNCHANGED <<pending_commits, commit_timers, timer_lock, fetch_timer, timers,
                   cleanup_iter, cmds, commits, recorded>>
    /\ UNCHANGED <<fetch_timers, poll, polled, probe, handling>>

\* a slip: the new timer is started without being stored in the map
schedule_timers_unstored(dir_key, id) == commit_timers

\* the timer map after schedule_commit's locked block
schedule_timers(dir_key, id) == Put(commit_timers, dir_key, id)

\* the Timer objects after schedule_commit's locked block: the timer stored for
\* the key is cancelled, a new one is created with the full delay and started
schedule_cancel(dir_key) ==
    IF dir_key \in DOMAIN commit_timers
    THEN cancel(timers, commit_timers[dir_key])
    ELSE timers

\* a slip: the list of changes is started anew with every change
append_change_replace(batch, change) == [batch EXCEPT !.changes = << change >>]

\* the batch after the change has been added to its list of changes
append_change(batch, change) == [batch EXCEPT !.changes = Append(batch.changes, change)]

\* a slip: the block is entered without the lock
lock_not_taken == TRUE

\* `with self.timer_lock:` in schedule_commit: the block is entered once the
\* lock is free, and the lock is held to the end of the block
lock_acquired == timer_lock = Free

\* schedule_commit's block under timer_lock: cancel, create or update the
\* batch, append the change, create and start the new timer.
ScheduleBody ==
    /\ pc[Event] = "sched_lock"
    /\ lock_acquired
    /\ LET dir_key == call.target_dir
           batch == IF dir_key \in DOMAIN pending_commits
                    THEN pending_commits[dir_key]
                    ELSE [target_dir |-> call.target_dir,
                          commit_type |-> call.commit_type,
                          changes |-> << >>]
           change == [id |-> call.id, file_path |-> call.file_path,
                      event_type |-> call.event_type,
                      file_name |-> Last(call.file_path)]
           id == Len(timers) + 1
           prev == PrevChange(dir_key)
       IN  /\ recorded' = Append(recorded,
                              [key |-> dir_key, close |-> prev # 0 /\ ~Elapsed(prev)])
           /\ timers' = Append(schedule_cancel(dir_key),
                               [key |-> dir_key, remaining |-> COMMIT_DELAY,
                                finished |-> FALSE])
           /\ pending_commits' =
                  Put(pending_commits, dir_key, append_change(batch, change))
           /\ commit_timers' = schedule_timers(dir_key, id)
           /\ pc' = [pc EXCEPT ![Event] = "idle", ![Tm(id)] = "wait"]
    /\ call' = NoCall
    /\ UNCHANGED <<timer_lock, fetch_timer, cleanup_iter, cmds, commits>>
    /\ UNCHANGED <<fetch_timers, poll, polled, probe, handling>>

\* a timer is armed: started, not cancelled, its function not yet called
Armed(i) == pc[Tm(i)] = "wait" /\ ~timers[i].finished

\* Timer.run: the interval has passed and the timer was not cancelled, so the
\* thread calls _execute_delayed_commit and waits for timer_lock.
TimerFire(i) ==
    /\ i \in DOMAIN timers
    /\ Armed(i)
    /\ timers[i].remaining = 0
    /\ pc' = [pc EXCEPT ![Tm(i)] = "exec_lock"]
    /\ UNCHANGED <<pending_commits, commit_timers, timer_lock, fetch_timer, timers,
                   call, cleanup_iter, cmds, commits, recorded>>
    /\ UNCHANGED <<fetch_timers, poll, polled, probe, handling>>

\* ----------------------------------------------------------- commit steps
\* Outcome of one external command: status 0, a non-zero status, or an
\* exception out of _run_git_command.  A commit may also answer "nothing to
\* commit" (a non-zero status with that text).
GitResults == {"ok", "fail", "raise"}
CommitResults == {"ok", "nothing", "fail", "raise"}

Cmd(repo, cmd, res) == [repo |-> repo, cmd |-> cmd, res |-> res]

\* _push_changes: one push; its status is not returned and its exception is
\* caught inside
push_changes(dir, rp) == << Cmd(dir, "push", rp) >>

\* _commit_squashed_submodule: add, commit, and push on a commit status of 0.
\* Every exception is caught inside; the caller learns nothing of the outcome.
commit_squashed_submodule(submodule_dir, ra, rc, rp) ==
    IF ra # "ok" THEN << Cmd(submodule_dir, "add", ra) >>
    ELSE IF rc # "ok"
         THEN << Cmd(submodule_dir, "add", ra), Cmd(submodule_dir, "commit", rc) >>
         ELSE << Cmd(submodule_dir, "add", ra), Cmd(submodule_dir, "commit", rc) >>
              \o push_changes(submodule_dir, rp)

\* _commit_squashed_main_repo: add, commit, and on a commit status of 0 the
\* notification and the push
commit_squashed_main_repo(ra, rc, rp) ==
    IF ra # "ok" THEN << Cmd(repo_dir, "add", ra) >>
    ELSE IF rc # "ok"
         THEN << Cmd(repo_dir, "add", ra), Cmd(repo_dir, "commit", rc) >>
         ELSE << Cmd(repo_dir, "add", ra), Cmd(repo_dir, "commit", rc),
                 Cmd(repo_dir, "notify", "ok") >>
              \o push_changes(repo_dir, rp)

\* _commit_submodule_update: stage the submodule's reference in the primary
\* repository, commit it, and on a commit status of 0 notify and push
commit_submodule_update(submodule_dir, ra, rc, rp) ==
    IF ra # "ok" THEN << Cmd(repo_dir, "add", ra) >>
    ELSE IF rc # "ok"
         THEN << Cmd(repo_dir, "add", ra), Cmd(repo_dir, "commit", rc) >>
         ELSE << Cmd(repo_dir, "add", ra), Cmd(repo_dir, "commit", rc),
                 Cmd(repo_dir, "notify", "ok") >>
              \o push_changes(repo_dir, rp)

\* ------------------------------------------------- _execute_delayed_commit
\* the dir_key argument of the call a thread is in
ExecKey(th) == IF th = Main THEN cleanup_iter.key ELSE timers[th[2]].key

\* where a thread continues when _execute_delayed_commit returns: a timer
\* thread ends, cleanup goes on with its loop
ExecReturn(th) == IF th = Main THEN "cleanup_loop" ELSE "done"

\* Timer.run sets finished after the function has returned
ExecReturnTimers(th) == IF th = Main THEN timers ELSE cancel(timers, th[2])

ChangeIds(changes) == [i \in DOMAIN changes |-> changes[i].id]

\* a slip: _execute_delayed_commit goes on without the lock
exec_lock_not_taken == TRUE

\* `with self.timer_lock:` in _execute_delayed_commit: the caller goes on once
\* the lock is free, also a caller that holds the lock itself
exec_lock_acquired == timer_lock = Free

\* `with self.timer_lock:` and the two early returns.  With a non-empty batch
\* for the key the commit sequence starts, the lock held.
ExecEnter(th) ==
    /\ pc[th] = "exec_lock"
    /\ exec_lock_acquired
    /\ LET dir_key == ExecKey(th)
       IN  IF dir_key \notin DOMAIN pending_commits
              \/ pending_commits[dir_key].changes = << >>
           THEN /\ pc' = [pc EXCEPT ![th] = ExecReturn(th)]
                /\ timers' = ExecReturnTimers(th)
                /\ UNCHANGED <<timer_lock, cmds, commits>>
           ELSE /\ timer_lock' = th
                /\ pc' = [pc EXCEPT ![th] = "exec_try"]
                /\ cmds' = << >>
                /\ commits' = Append(commits,
                       [key |-> dir_key,
                        changes |-> ChangeIds(pending_commits[dir_key].changes),
                        quiet |-> Elapsed(Last(pending_commits[dir_key].changes).id)])
                /\ UNCHANGED timers
    /\ UNCHANGED <<pending_commits, commit_timers, fetch_timer, call, cleanup_iter,
                   recorded>>
    /\ UNCHANGED <<fetch_timers, poll, polled, probe, handling>>

\* the try block, submodule batch, first call: _commit_squashed_submodule
CommitSquashedSubmodule(th) ==
    /\ pc[th] = "exec_try"
    /\ pending_commits[ExecKey(th)].commit_type = "submodule"
    /\ \E log \in {commit_squashed_submodule(
                         pending_commits[ExecKey(th)].target_dir, ra, rc, rp) :
                     ra \in GitResults, rc \in CommitResults, rp \in GitResults} :
          cmds' = cmds \o log
    /\ pc' = [pc EXCEPT ![th] = "exec_update"]
    /\ UNCHANGED <<pending_commits, commit_timers, timer_lock, fetch_timer, timers,
                   call, cleanup_iter, commits, recorded>>
    /\ UNCHANGED <<fetch_timers, poll, polled, probe, handling>>

\* the try block, submodule batch, second call: _commit_submodule_update
CommitSubmoduleUpdate(th) ==
    /\ pc[th] = "exec_update"
    /\ \E log \in {commit_submodule_update(
                         pending_commits[ExecKey(th)].target_dir, ra, rc, rp) :
                     ra \in GitResults, rc \in CommitResults, rp \in GitResults} :
          cmds' = cmds \o log
    /\ pc' = [pc EXCEPT ![th] = "exec_finally"]
    /\ UNCHANGED <<pending_commits, commit_timers, timer_lock, fetch_timer, timers,
                   call, cleanup_iter, commits, recorded>>
    /\ UNCHANGED <<fetch_timers, poll, polled, probe, handling>>

\* the try block, primary batch: _commit_squashed_main_repo
CommitSquashedMainRepo(th) ==
    /\ pc[th] = "exec_try"
    /\ pending_commits[ExecKey(th)].commit_type = "main"
    /\ \E log \in {commit_squashed_main_repo(ra, rc, rp) :
                     ra \in GitResults, rc \in CommitResults, rp \in GitResults} :
          cmds' = cmds \o log
    /\ pc' = [pc EXCEPT ![th] = "exec_finally"]
    /\ UNCHANGED <<pending_commits, commit_timers, timer_lock, fetch_timer, timers,
                   call, cleanup_iter, commits, recorded>>
    /\ UNCHANGED <<fetch_timers, poll, polled, probe, handling>>

\* a slip: the finally block clears the whole batch map
finally_pending_all(dir_key) == [x \in {} |-> pending_commits[x]]

\* a slip: the finally block leaves the timer entry in the map
finally_timers_keep(dir_key) == commit_timers

\* the batch map after the finally block
finally_pending(dir_key) == Pop(pending_commits, dir_key)

\* the timer map after the finally block
finally_timers(dir_key) == Pop(commit_timers, dir_key)

\* the finally block: both entries of the key are popped; the lock is
\* released on leaving the with block
ExecFinally(th) ==
    /\ pc[th] = "exec_finally"
    /\ pending_commits' = finally_pending(ExecKey(th))
    /\ commit_timers' = finally_timers(ExecKey(th))
    /\ timer_lock' = Free
    /\ timers' = ExecReturnTimers(th)
    /\ pc' = [pc EXCEPT ![th] = ExecReturn(th)]
    /\ cmds' = << >>
    /\ UNCHANGED <<fetch_timer, call, cleanup_iter, commits, recorded>>
    /\ UNCHANGED <<fetch_timers, poll, polled, probe, handling>>

\* ------------------------------------------------------------ remote poll
\* What one repository answers to the commands of a check: the outcome of
\* fetch and of the branch listing, the lines of the listing, and per branch
\* the outcome of rev-parse (status 0: origin/<branch> exists), the outcome
\* of rev-list and the count it prints.
Facts(fetch, list, branches, remote, rev, count) ==
    [fetch |-> fetch, list |-> list, branches |-> branches, remote |-> remote,
     rev |-> rev, count |-> count]

\* the label a repository is checked under
repo_name(dir) == IF dir = repo_dir THEN <<"main repo">> ELSE <<"submodule", Last(dir)>>

\* _fetch_and_check_changes, the loop over the listed branches from line n
\* on: a blank line is skipped, a branch whose rev-parse fails is skipped, a
\* positive count of a successful rev-list appends a record.  An exception of
\* a command leaves the loop.
\* a slip: a count of 0 is recorded too
positive_or_zero(ahead_count) == ahead_count >= 0

\* `if ahead_count > 0`
positive(ahead_count) == ahead_count > 0

RECURSIVE check_branches(_, _, _, _)
check_branches(name, facts, n, changes) ==
    IF n > Len(facts.branches) THEN [raised |-> FALSE, changes |-> changes]
    ELSE LET branch == facts.branches[n]
         IN  IF branch = "" THEN check_branches(name, facts, n + 1, changes)
             ELSE IF facts.remote[branch] = "raise"
                  THEN [raised |-> TRUE, changes |-> changes]
             ELSE IF facts.remote[branch] # "ok"
                  THEN check_branches(name, facts, n + 1, changes)
             ELSE IF facts.rev[branch] = "raise"
                  THEN [raised |-> TRUE, changes |-> changes]
             ELSE IF facts.rev[branch] = "ok" /\ positive(facts.count[branch])
                  THEN check_branches(name, facts, n + 1,
                           Append(changes, [branch |-> branch,
                                            commits |-> facts.count[branch],
                                            repo |-> name]))
             ELSE check_branches(name, facts, n + 1, changes)

\* _fetch_and_check_changes: nothing on a failed fetch or listing, nothing on
\* any exception, else the records of the loop
fetch_and_check_changes(name, facts) ==
    IF facts.fetch # "ok" THEN << >>
    ELSE IF facts.list # "ok" THEN << >>
    ELSE LET r == check_branches(name, facts, 1, << >>)
         IN  IF r.raised THEN << >> ELSE r.changes

\* the answers a repository gives during a poll cycle: the fetch fails, or
\* main has origin/main 3 commits ahead or level and dev has no origin/dev
Branches == {"main", "dev"}
PollFacts ==
    { Facts(f, "ok", <<"main", "dev">>,
            [b \in Branches |-> IF b = "main" THEN "ok" ELSE "fail"],
            [b \in Branches |-> "ok"],
            [b \in Branches |-> c]) : f \in {"ok", "fail"}, c \in {0, 3} }

\* a poll timer is armed: started, not cancelled, its function not yet called
ArmedFetch(i) == fetch_timers[i].pc = "wait" /\ ~fetch_timers[i].finished

\* a slip: the next timer is started when the cycle begins
fire_timers_rearm(i) == Append([fetch_timers EXCEPT ![i].pc = "run"], NewFetchTimer)

\* the poll Timer objects once timer i has called _periodic_fetch
fire_timers(i) == [fetch_timers EXCEPT ![i].pc = "run"]

Check(name, fetch, changes) ==
    [what |-> "check", repo |-> name, fetch |-> fetch, changes |-> changes]

\* Timer.run: the interval has passed and the timer was not cancelled, so the
\* (daemon) thread calls _periodic_fetch.
PollFire(i) ==
    /\ pc[Main] # "exit"
    /\ i \in DOMAIN fetch_timers
    /\ i <= MaxCycles
    /\ ArmedFetch(i)
    /\ fetch_timers[i].remaining = 0
    /\ fetch_timers' = fire_timers(i)
    /\ poll' = Put(poll, i, [pc |-> "main", next |-> 1, main_changes |-> << >>,
                             submodule_changes |-> << >>])
    /\ polled' = << >>
    /\ UNCHANGED <<pending_commits, commit_timers, timer_lock, fetch_timer, timers,
                   pc, call, cleanup_iter, cmds, commits, recorded, probe, handling>>

\* a slip: a failed fetch of the primary repository ends the checks
after_main_check_abort(facts) == IF facts.fetch # "ok" THEN "notify" ELSE "subs"

\* where _periodic_fetch continues after the check of the primary repository:
\* with the loop over the submodules, whatever the check returned
after_main_check(facts) == "subs"

\* _periodic_fetch: the check of the primary repository
PollCheckMain(i) ==
    /\ pc[Main] # "exit"
    /\ i \in DOMAIN poll
    /\ poll[i].pc = "main"
    /\ \E facts \in PollFacts :
          LET changes == fetch_and_check_changes(repo_name(repo_dir), facts)
          IN  /\ poll' = [poll EXCEPT ![i].main_changes = changes,
                                       ![i].pc = after_main_check(facts)]
              /\ polled' = Append(polled,
                                  Check(repo_name(repo_dir), facts.fetch, changes))
    /\ UNCHANGED <<pending_commits, commit_timers, timer_lock, fetch_timer, timers,
                   pc, call, cleanup_iter, cmds, commits, recorded, fetch_timers,
                   probe, handling>>

\* _periodic_fetch: one turn of the loop over self.submodules; the records of
\* a submodule are added to submodule_changes
PollCheckSubmodule(i) ==
    /\ pc[Main] # "exit"
    /\ i \in DOMAIN poll
    /\ poll[i].pc = "subs"
    /\ IF poll[i].next > Len(submodules)
       THEN /\ poll' = [poll EXCEPT ![i].pc = "notify"]
            /\ UNCHANGED polled
       ELSE \E facts \in PollFacts :
              LET submodule == submodules[poll[i].next]
                  changes == fetch_and_check_changes(repo_name(submodule), facts)
              IN  /\ poll' = [poll EXCEPT
                                 ![i].submodule_changes = @ \o changes,
                                 ![i].next = @ + 1]
                  /\ polled' = Append(polled,
                                      Check(repo_name(submodule), facts.fetch, changes))
    /\ UNCHANGED <<pending_commits, commit_timers, timer_lock, fetch_timer, timers,
                   pc, call, cleanup_iter, cmds, commits, recorded, fetch_timers,
                   probe, handling>>

\* a slip: only the primary repository's records call for a notification
notify_due_main_only(main_changes, submodule_changes) == main_changes # << >>

\* `if main_changes or submodule_changes`
notify_due(main_changes, submodule_changes) ==
    main_changes # << >> \/ submodule_changes # << >>

\* _periodic_fetch: with a record in either list _send_change_notification is
\* called, which sends one notification of all records; its failures are
\* caught inside
PollNotify(i) ==
    /\ pc[Main] # "exit"
    /\ i \in DOMAIN poll
    /\ poll[i].pc = "notify"
    /\ polled' = IF notify_due(poll[i].main_changes, poll[i].submodule_changes)
                 THEN Append(polled,
                        [what |-> "notify", repo |-> << >>, fetch |-> "ok",
                         changes |-> poll[i].main_changes \o poll[i].submodule_changes])
                 ELSE polled
    /\ poll' = [poll EXCEPT ![i].pc = "finally"]
    /\ UNCHANGED <<pending_commits, commit_timers, timer_lock, fetch_timer, timers,
                   pc, call, cleanup_iter, cmds, commits, recorded, fetch_timers,
                   probe, handling>>

\* a slip: an exception ends the cycle's thread at once
after_raise_lost == "ended"

\* where _periodic_fetch continues after an exception in its try block: the
\* except clause logs it and the finally block runs
after_raise == "finally"

\* _periodic_fetch: an exception in the try block
PollRaise(i) ==
    /\ pc[Main] # "exit"
    /\ i \in DOMAIN poll
    /\ poll[i].pc \in {"main", "subs", "notify"}
    /\ poll' = [poll EXCEPT ![i].pc = after_raise]
    /\ polled' = Append(polled, [what |-> "raise", repo |-> << >>, fetch |-> "ok",
                                 changes |-> << >>])
    /\ UNCHANGED <<pending_commits, commit_timers, timer_lock, fetch_timer, timers,
                   pc, call, cleanup_iter, cmds, commits, recorded, fetch_timers,
                   probe, handling>>

\* _periodic_fetch, the finally block: start_fetch_timer creates and starts the
\* next Timer and stores it in self.fetch_timer; the function returns and
\* Timer.run sets the old timer's finished
PollFinally(i) ==
    /\ pc[Main] # "exit"
    /\ i \in DOMAIN poll
    /\ poll[i].pc = "finally"
    /\ fetch_timers' = Append([fetch_timers EXCEPT ![i].pc = "done",
                                                   ![i].finished = TRUE],
                              NewFetchTimer)
    /\ fetch_timer' = Len(fetch_timers) + 1
    /\ poll' = Pop(poll, i)
    /\ UNCHANGED <<pending_commits, commit_timers, timer_lock, timers, pc, call,
                   cleanup_iter, cmds, commits, recorded, polled, probe, handling>>

\* ------------------------------------------------------------------ shutdown
\* main: KeyboardInterrupt; observer.stop() ends the dispatch of new events and
\* cleanup is called
Interrupt ==
    /\ pc[Main] = "run"
    /\ pc' = [pc EXCEPT ![Main] = "cleanup_lock"]
    /\ UNCHANGED <<pending_commits, commit_timers, timer_lock, fetch_timer, timers,
                   call, cleanup_iter, cmds, commits, recorded>>
    /\ UNCHANGED <<fetch_timers, poll, polled, probe, handling>>

\* cleanup: `with self.timer_lock:` and the start of the iteration over
\* commit_timers.items()
CleanupEnter ==
    /\ pc[Main] = "cleanup_lock"
    /\ timer_lock = Free
    /\ timer_lock' = Main
    /\ cleanup_iter' = [todo |-> DOMAIN commit_timers,
                        size |-> Cardinality(DOMAIN commit_timers),
                        key |-> << >>]
    /\ pc' = [pc EXCEPT ![Main] = "cleanup_loop"]
    /\ UNCHANGED <<pending_commits, commit_timers, fetch_timer, timers, call, cmds,
                   commits, recorded>>
    /\ UNCHANGED <<fetch_timers, poll, polled, probe, handling>>

\* cleanup, one turn of the loop.  A dict whose size changed during the
\* iteration raises RuntimeError, which leaves cleanup and main.  With items
\* left, the item's timer is cancelled and, the key having a batch,
\* _execute_delayed_commit is called with timer_lock still held.  With none
\* left, both maps are cleared and the poll timer is cancelled.
CleanupLoop ==
    /\ pc[Main] = "cleanup_loop"
    /\ IF Cardinality(DOMAIN commit_timers) # cleanup_iter.size
       THEN /\ timer_lock' = Free
            /\ pc' = [pc EXCEPT ![Main] = "crashed"]
            /\ UNCHANGED <<pending_commits, commit_timers, fetch_timers, timers,
                           cleanup_iter>>
       ELSE IF cleanup_iter.todo # {}
       THEN \E dir_key \in cleanup_iter.todo :
               /\ timers' = cancel(timers, commit_timers[dir_key])
               /\ cleanup_iter' = [cleanup_iter EXCEPT !.todo = @ \ {dir_key},
                                                       !.key = dir_key]
               /\ pc' = [pc EXCEPT ![Main] =
                            IF dir_key \in DOMAIN pending_commits
                            THEN "exec_lock" ELSE "cleanup_loop"]
               /\ UNCHANGED <<pending_commits, commit_timers, timer_lock, fetch_timers>>
       ELSE /\ commit_timers' = << >>
            /\ pending_commits' = << >>
            /\ fetch_timers' = cancel(fetch_timers, fetch_timer)
            /\ timer_lock' = Free
            /\ pc' = [pc EXCEPT ![Main] = "join"]
            /\ UNCHANGED <<timers, cleanup_iter>>
    /\ UNCHANGED <<call, cmds, commits, recorded, fetch_timer>>
    /\ UNCHANGED <<poll, polled, probe, handling>>

\* main: observer.join() returns once the dispatch thread has left its handler
Exit ==
    /\ pc[Main] = "join"
    /\ pc[Event] = "idle"
    /\ pc' = [pc EXCEPT ![Main] = "exit"]
    /\ UNCHANGED <<pending_commits, commit_timers, timer_lock, fetch_timer, timers,
                   call, cleanup_iter, cmds, commits, recorded>>
    /\ UNCHANGED <<fetch_timers, poll, polled, probe, handling>>

\* ------------------------------------------------------------ specification
Next ==
    \/ Tick
    \/ \E ev \in Events : ScheduleCall(ev.src_path, ev.event_type)
    \/ ScheduleBody
    \/ \E i \in 1..MaxChanges : TimerFire(i)
    \/ \E th \in Threads : ExecEnter(th)
    \/ \E th \in Threads : CommitSquashedSubmodule(th)
    \/ \E th \in Threads : CommitSubmoduleUpdate(th)
    \/ \E th \in Threads : CommitSquashedMainRepo(th)
    \/ \E th \in Threads : ExecFinally(th)
    \/ Interrupt
    \/ CleanupEnter
    \/ CleanupLoop
    \/ Exit

Spec == Init /\ [][Next]_vars

\* The steps the program takes by itself; new events and the interrupt are
\* the environment's.
Steps ==
    \/ Tick
    \/ ScheduleBody
    \/ \E i \in 1..MaxChanges : TimerFire(i)
    \/ \E th \in Threads : ExecEnter(th)
    \/ \E th \in Threads : CommitSquashedSubmodule(th)
    \/ \E th \in Threads : CommitSubmoduleUpdate(th)
    \/ \E th \in Threads : CommitSquashedMainRepo(th)
    \/ \E th \in Threads : ExecFinally(th)
    \/ CleanupEnter
    \/ CleanupLoop
    \/ Exit

\* Every thread that can take a step eventually takes one, and time passes.
\* No behaviour returns to a state it has left (every step consumes a tick,
\* a call or a thread position), so weak fairness of the steps together is
\* weak fairness of each.
FairSpec == Spec /\ WF_vars(Steps)

\* The watcher while it keeps running: no interrupt.
RunNext ==
    \/ Tick
    \/ \E ev \in Events : ScheduleCall(ev.src_path, ev.event_type)
    \/ ScheduleBody
    \/ \E i \in 1..MaxChanges : TimerFire(i)
    \/ \E th \in Threads : ExecEnter(th)
    \/ \E th \in Threads : CommitSquashedSubmodule(th)
    \/ \E th \in Threads : CommitSubmoduleUpdate(th)
    \/ \E th \in Threads : CommitSquashedMainRepo(th)
    \/ \E th \in Threads : ExecFinally(th)

RunSteps ==
    \/ Tick
    \/ ScheduleBody
    \/ \E i \in 1..MaxChanges : TimerFire(i)
    \/ \E th \in Threads : ExecEnter(th)
    \/ \E th \in Threads : CommitSquashedSubmodule(th)
    \/ \E th \in Threads : CommitSubmoduleUpdate(th)
    \/ \E th \in Threads : CommitSquashedMainRepo(th)
    \/ \E th \in Threads : ExecFinally(th)

RunSpec == Init /\ [][RunNext]_vars /\ WF_vars(RunSteps)

\* ---------------------------------------------------------- commit message
\* A message is the sequence of its words; ", " is the word ",".
\* What the repository and the file system answer for the paths of a batch:
\* exists is "yes", "no" or "raise" (Path.exists raises), tracked is the
\* outcome of `git ls-files --error-unmatch`: "ok" (status 0, tracked),
\* "fail" (non-zero, not tracked) or "raise" (the command cannot be run).
Numerals == <<"1", "2", "3", "4", "5">>
Numeral(n) == Numerals[n]

\* the set of distinct paths of the batch
changed_files(changes) == {changes[i].file_path : i \in DOMAIN changes}

\* the group a path is put in by the status branch: "modified", "deleted",
\* "added", "none" (absent and untracked), or "raise" when Path.exists raises,
\* in the if chain or in the inner except clause
classify(file_path, facts) ==
    LET e == facts.exists[file_path]
        t == facts.tracked[file_path]
    IN  IF e = "raise" THEN "raise"
        ELSE IF t = "raise" THEN (IF e = "yes" THEN "modified" ELSE "deleted")
        ELSE IF e = "yes" /\ t = "ok" THEN "modified"
        ELSE IF e = "no" /\ t = "ok" THEN "deleted"
        ELSE IF e = "yes" THEN "added"
        ELSE "none"

\* git_changes[kind]: the paths of the group
git_changes(changes, facts, kind) ==
    {f \in changed_files(changes) : classify(f, facts) = kind}

\* a slip: a group counts the events of its paths
group_size_events(changes, group) ==
    Cardinality({i \in DOMAIN changes : changes[i].file_path \in group})

\* len(git_changes[kind])
group_size(changes, group) == Cardinality(group)

\* one element of message_parts: nothing for an empty group, verb and name for
\* one member, verb and count otherwise
message_part(verb, changes, group) ==
    IF group = {} THEN << >>
    ELSE IF group_size(changes, group) = 1
         THEN << verb, Last(CHOOSE f \in group : TRUE) >>
         ELSE << verb, Numeral(group_size(changes, group)), "files" >>

\* ', '.join(message_parts)
RECURSIVE join(_)
join(parts) ==
    IF parts = << >> THEN << >>
    ELSE IF Head(parts) = << >> THEN join(Tail(parts))
    ELSE IF join(Tail(parts)) = << >> THEN Head(parts)
    ELSE Head(parts) \o << "," >> \o join(Tail(parts))

\* a slip: the modified group is rendered first
message_parts_modified_first(added, modified, deleted) == << modified, added, deleted >>

\* message_parts: the order in which the groups are appended
message_parts(added, modified, deleted) == << added, modified, deleted >>

\* one element of the fallback's message_parts, from a list of file names
fallback_part(verb, files) ==
    IF files = << >> THEN << >>
    ELSE IF Len(files) = 1 THEN << verb, files[1] >>
    ELSE << verb, Numeral(Len(files)), "files" >>

FileNames(changes, event_type) ==
    LET sel == SelectSeq(changes, LAMBDA c : c.event_type = event_type)
    IN  [i \in DOMAIN sel |-> sel[i].file_name]

\* _create_fallback_commit_message
create_fallback_commit_message(changes, location) ==
    IF Len(changes) = 1
    THEN << changes[1].event_type, changes[1].file_name, "in", location >>
    ELSE join(<< fallback_part("add", FileNames(changes, "created")),
                 fallback_part("update", FileNames(changes, "modified")),
                 fallback_part("remove", FileNames(changes, "deleted")) >>)
         \o << "in", location >>

\* _create_squashed_commit_message
create_squashed_commit_message(changes, location, facts) ==
    IF changed_files(changes) = {} THEN << "update", "files", "in", location >>
    ELSE IF \E f \in changed_files(changes) : classify(f, facts) = "raise"
         THEN create_fallback_commit_message(changes, location)
    ELSE LET parts == join(message_parts(
                 message_part("add", changes, git_changes(changes, facts, "added")),
                 message_part("update", changes, git_changes(changes, facts, "modified")),
                 message_part("remove", changes, git_changes(changes, facts, "deleted"))))
         IN  IF parts # << >> THEN parts \o << "in", location >>
             ELSE << "update", "files", "in", location >>

\* ---------------------------------------------------------- ignore patterns
\* Strings that are matched are sequences of characters.
Spell(component) == [i \in 1..Len(component) |-> SubSeq(component, i, i)]

\* str(path) of a relative path: its components joined by "/", "." for none
RECURSIVE path_str(_)
path_str(rel) ==
    IF rel = << >> THEN << "." >>
    ELSE IF Len(rel) = 1 THEN Spell(rel[1])
    ELSE Spell(rel[1]) \o << "/" >> \o path_str(Tail(rel))

\* fnmatch.fnmatch for patterns of literal characters, "*" and "?": the whole
\* string is matched, "*" and "?" match "/" as any other character
RECURSIVE fnmatch(_, _)
fnmatch(name, pat) ==
    IF pat = << >> THEN name = << >>
    ELSE IF Head(pat) = "*"
         THEN fnmatch(name, Tail(pat)) \/ (name # << >> /\ fnmatch(Tail(name), pat))
    ELSE /\ name # << >>
         /\ Head(pat) = "?" \/ Head(pat) = Head(name)
         /\ fnmatch(Tail(name), Tail(pat))

\* rel_path.parents: the proper prefixes of the path, the empty one included
parents(rel) == {SubSeq(rel, 1, n) : n \in 0..(Len(rel) - 1)}

\* one pattern of the loop against the relative path; is_dir is what
\* rel_path.is_dir() answers for the relative path
pattern_matches(rel, pattern, is_dir) ==
    IF Head(pattern) = "!" THEN FALSE
    ELSE IF Last(pattern) = "/"
         THEN LET stem == SubSeq(pattern, 1, Len(pattern) - 1)
              IN  \/ is_dir /\ fnmatch(path_str(rel), stem)
                  \/ \E parent \in parents(rel) : fnmatch(path_str(parent), stem)
    ELSE \/ fnmatch(path_str(rel), pattern)
         \/ fnmatch(Spell(Last(rel)), pattern)
         \/ \E parent \in parents(rel) : fnmatch(path_str(parent), pattern)

\* _matches_gitignore: the patterns of the repository the file belongs to,
\* against the file's path relative to that repository
matches_gitignore(file_path, loaded, is_dir) ==
    LET repo == IF is_in_submodule(file_path)
                THEN get_submodule_for_file(file_path) ELSE repo_dir
    IN  IF repo \notin DOMAIN loaded THEN FALSE
        ELSE LET patterns == loaded[repo]
                 rel == SubSeq(file_path, Len(repo) + 1, Len(file_path))
             IN  \E n \in DOMAIN patterns : pattern_matches(rel, patterns[n], is_dir)

\* ------------------------------------------------------------- classifier
\* str.startswith, str.endswith, `t in s`, str.isdigit
startswith(s, t) == Len(t) <= Len(s) /\ SubSeq(s, 1, Len(t)) = t
endswith(s, t) == Len(t) <= Len(s) /\ SubSeq(s, Len(s) - Len(t) + 1, Len(s)) = t
contains(s, t) == \E n \in 0..(Len(s) - Len(t)) : SubSeq(s, n + 1, n + Len(t)) = t
Digits == {"0", "1", "2", "3", "4", "5", "6", "7", "8", "9"}
isdigit(s) == Len(s) > 0 /\ \A n \in 1..Len(s) : SubSeq(s, n, n) \in Digits

\* str(file_path) of an absolute path: "/" before every component
RECURSIVE abs_str(_)
abs_str(file_path) ==
    IF file_path = << >> THEN "" ELSE "/" \o Head(file_path) \o abs_str(Tail(file_path))

\* config['excluded_patterns'], the default list
excluded_patterns ==
    << ".git/", ".git\\", "/.git/", "\\.git\\", "index.lock", "COMMIT_EDITMSG",
       "HEAD.lock", "refs/heads/", "refs/remotes/", "logs/HEAD", "logs/refs/",
       "objects/", "hooks/", "info/", "packed-refs", "config.lock", "shallow.lock",
       "modules/", ".git/index", ".git/HEAD", ".git/refs/", ".git/logs/",
       ".git/objects/", ".git/modules/", "ORIG_HEAD", "FETCH_HEAD", "MERGE_HEAD",
       "CHERRY_PICK_HEAD", ".tmp_", "__pycache__/", ".pyc", ".pyo", ".swp",
       ".swo", ".tmp", "~", ".bak" >>

\* a slip: the lock suffix is not among the excluded endings
excluded_endings_no_lock == {".tmp", ".swp", ".swo", "~", ".bak"}

\* the endings of the file name that exclude a file
excluded_endings == {".lock", ".tmp", ".swp", ".swo", "~", ".bak"}

git_files == {"COMMIT_EDITMSG", "ORIG_HEAD", "FETCH_HEAD", "MERGE_HEAD",
              "CHERRY_PICK_HEAD", "HEAD", "index"}

\* _should_exclude_file; loaded is self.gitignore_patterns, is_dir what
\* rel_path.is_dir() answers in _matches_gitignore
should_exclude_file(file_path, loaded, is_dir) ==
    LET file_path_str == abs_str(file_path)
        file_name == Last(file_path)
    IN  \/ \E n \in DOMAIN excluded_patterns :
              contains(file_path_str, excluded_patterns[n])
        \/ \E ending \in excluded_endings : endswith(file_name, ending)
        \/ isdigit(file_name)
        \/ startswith(file_name, ".") /\ endswith(file_name, ".swp")
        \/ startswith(file_name, ".") /\ endswith(file_name, ".swo")
        \/ startswith(file_name, "4913")
        \/ Len(file_name) = 4 /\ isdigit(file_name)
        \/ Len(file_name) <= 6 /\ isdigit(file_name)
        \/ startswith(file_name, ".#")
        \/ endswith(file_name, "#")
        \/ startswith(file_name, "#")
        \/ endswith(file_name, ".orig")
        \/ endswith(file_name, ".rej")
        \/ contains(file_path_str, "/.git/")
        \/ contains(file_path_str, "\\.git\\")
        \/ endswith(file_path_str, "/.git")
        \/ contains(file_path_str, "/.git/index")
        \/ \E n \in DOMAIN file_path : startswith(file_path[n], ".git")
        \/ file_name \in git_files
        \/ matches_gitignore(file_path, loaded, is_dir)

\* --------------------------------------------------------- ignore-file load
\* str.strip of a line: blanks removed at both ends
RECURSIVE lstrip(_)
lstrip(line) ==
    IF line # << >> /\ Head(line) = " " THEN lstrip(Tail(line)) ELSE line

RECURSIVE rstrip(_)
rstrip(line) ==
    IF line # << >> /\ Last(line) = " "
    THEN rstrip(SubSeq(line, 1, Len(line) - 1)) ELSE line

strip(line) == rstrip(lstrip(line))

\* the patterns of a file: its stripped lines that are neither empty nor
\* comments, in file order
read_patterns(lines) ==
    SelectSeq([n \in DOMAIN lines |-> strip(lines[n])],
              LAMBDA line : line # << >> /\ Head(line) # "#")

\* _load_gitignore_for_repo: self.gitignore_patterns after the call.  Nothing
\* is assigned when the file does not exist, nor when open() or the read
\* raises (the except clause logs the error).
load_gitignore_for_repo(loaded, files, root) ==
    IF files[root].state = "absent" THEN loaded
    ELSE IF files[root].state = "unreadable" THEN loaded
    ELSE Put(loaded, root, read_patterns(files[root].lines))

\* _load_gitignore_patterns: the primary repository, then every submodule
RECURSIVE load_submodules(_, _, _)
load_submodules(loaded, files, n) ==
    IF n > Len(submodules) THEN loaded
    ELSE load_submodules(load_gitignore_for_repo(loaded, files, submodules[n]),
                         files, n + 1)

load_gitignore_patterns(loaded, files) ==
    load_submodules(load_gitignore_for_repo(loaded, files, repo_dir), files, 1)

\* ------------------------------------------------ pure functions, applied
\* everything but the probe
watcher == <<pending_commits, commit_timers, timer_lock, fetch_timer, timers, pc,
             call, cleanup_iter, cmds, commits, recorded, fetch_timers, poll, polled,
             handling>>

\* the repositories a check is applied to
Counts == {0, 1, 3}
BranchLists == { <<"main", "dev">>, <<"dev", "main">>, <<"main">>, <<"">>,
                 <<"main", "", "dev">> }
CheckFacts ==
    { Facts(f, l, bs, remote, rev, count) :
        f \in GitResults, l \in GitResults, bs \in BranchLists,
        remote \in [Branches -> GitResults], rev \in [Branches -> GitResults],
        count \in [Branches -> Counts] }

\* _fetch_and_check_changes applied to one repository
ProbeCheck ==
    /\ probe = NoProbe
    /\ \E facts \in CheckFacts :
          probe' = [op |-> "check", in |-> facts,
                    out |-> fetch_and_check_changes(repo_name(repo_dir), facts)]
    /\ UNCHANGED watcher

CheckSpec == Init /\ [][ProbeCheck]_vars

\* the batches a message is made for, and the answers for their paths
SynthPaths == { <<"dotfiles", "a.txt">>, <<"dotfiles", "b.txt">>, <<"dotfiles", "c.txt">> }
EventTypes == {"created", "modified", "deleted"}
SynthChanges ==
    { [file_path |-> f, event_type |-> e, file_name |-> Last(f)] :
        f \in SynthPaths, e \in EventTypes }
SynthBatches == UNION { [1..n -> SynthChanges] : n \in 0..MaxBatch }
PathAnswers ==
    { [exists |-> "yes", tracked |-> "ok"], [exists |-> "yes", tracked |-> "fail"],
      [exists |-> "no", tracked |-> "ok"], [exists |-> "no", tracked |-> "fail"],
      [exists |-> "yes", tracked |-> "raise"], [exists |-> "raise", tracked |-> "ok"] }
SynthFacts(changes) ==
    { [exists |-> [f \in changed_files(changes) |-> a[f].exists],
       tracked |-> [f \in changed_files(changes) |-> a[f].tracked]] :
        a \in [changed_files(changes) -> PathAnswers] }

\* _create_squashed_commit_message applied to a batch of the primary repository
ProbeSynth ==
    /\ probe = NoProbe
    /\ \E changes \in SynthBatches : \E facts \in SynthFacts(changes) :
          probe' = [op |-> "synth", in |-> [changes |-> changes, facts |-> facts],
                    out |-> create_squashed_commit_message(changes, "main repo", facts)]
    /\ UNCHANGED watcher

SynthSpec == Init /\ [][ProbeSynth]_vars

\* str.replace(old, ""): every occurrence of old is removed, left to right
RECURSIVE remove(_, _)
remove(s, old) ==
    IF Len(s) < Len(old) \/ old = "" THEN s
    ELSE IF SubSeq(s, 1, Len(old)) = old
         THEN remove(SubSeq(s, Len(old) + 1, Len(s)), old)
    ELSE SubSeq(s, 1, 1) \o remove(SubSeq(s, 2, Len(s)), old)

\* _get_repo_for_location: the submodule named after "submodule " in the
\* location, the primary repository for every other location
get_repo_for_location(location) ==
    LET submodule_name == remove(location, "submodule ")
        named == {n \in DOMAIN submodules : Last(submodules[n]) = submodule_name}
    IN  IF contains(location, "submodule") /\ named # {}
        THEN submodules[CHOOSE n \in named : \A m \in named : n <= m]
        ELSE repo_dir

\* the repository _create_squashed_commit_message asks about the paths
message_repo_dir(location) ==
    IF location = "main repo" THEN repo_dir ELSE get_repo_for_location(location)

\* the batches of a submodule a message is made for, and the answers for their
\* paths: whether the path exists, and what `git ls-files --error-unmatch`
\* answers in the submodule and in the primary repository, which knows no path
\* inside a submodule
SubNames == {"a.txt", "b.txt"}
SubChanges(submodule_dir) ==
    { [file_path |-> submodule_dir \o << n >>, event_type |-> e, file_name |-> n] :
        n \in SubNames, e \in {"created", "deleted"} }
SubBatches(submodule_dir) ==
    UNION { [1..n -> SubChanges(submodule_dir)] : n \in 1..MaxBatch }
SubAnswers ==
    [exists : {"yes", "no"}, submodule : GitResults, primary : {"fail", "raise"}]

\* _commit_squashed_submodule's call of _create_squashed_commit_message
ProbeSubSynth ==
    /\ probe = NoProbe
    /\ \E n \in DOMAIN submodules :
          \E changes \in SubBatches(submodules[n]) :
             \E a \in [changed_files(changes) -> SubAnswers] :
                LET submodule_dir == submodules[n]
                    location == Last(submodule_dir)
                    ls_files == [repo \in {repo_dir, submodule_dir} |->
                                   [f \in changed_files(changes) |->
                                      IF repo = repo_dir THEN a[f].primary
                                      ELSE a[f].submodule]]
                    exists == [f \in changed_files(changes) |-> a[f].exists]
                    facts == [exists |-> exists,
                              tracked |-> ls_files[message_repo_dir(location)]]
                IN  probe' = [op |-> "subsynth",
                              in |-> [changes |-> changes, submodule_dir |-> submodule_dir,
                                      exists |-> exists, ls_files |-> ls_files],
                              out |-> create_squashed_commit_message(
                                          changes, location, facts)]
    /\ UNCHANGED watcher

SubSynthSpec == Init /\ [][ProbeSubSynth]_vars

\* the paths and the pattern lists the matcher is applied to
Components == {"build", "src", "sub", "a.txt"}
RelPaths == UNION { [1..n -> Components] : n \in 1..MaxDepth }
IgnorePaths ==
    {repo_dir \o rel : rel \in RelPaths}
    \cup {submodules[1] \o rel : rel \in {r \in RelPaths : Len(r) < MaxDepth}}
Patterns ==
    { <<"b", "u", "i", "l", "d", "/">>, <<"!", "a", ".", "t", "x", "t">>,
      <<"*", ".", "t", "x", "t">>, <<"b", "u", "i", "l", "d">>, <<"s", "?", "c">> }
PatternLists == { << x >> : x \in Patterns } \cup { << x, y >> : x, y \in Patterns }
PatternMaps ==
    { [k \in {repo_dir} |-> l] : l \in PatternLists }
    \cup { [k \in {repo_dir, submodules[1]} |-> l] : l \in PatternLists }

\* _matches_gitignore applied to a path
ProbeIgnore ==
    /\ probe = NoProbe
    /\ \E file_path \in IgnorePaths, m \in PatternMaps, is_dir \in BOOLEAN :
          probe' = [op |-> "ignore",
                    in |-> [file_path |-> file_path, gitignore_patterns |-> m,
                            is_dir |-> is_dir],
                    out |-> matches_gitignore(file_path, m, is_dir)]
    /\ UNCHANGED watcher

IgnoreSpec == Init /\ [][ProbeIgnore]_vars

\* the .gitignore files the file system may hold
IgnoreFile(lines) == [state |-> "file", lines |-> lines]
Unreadable == [state |-> "unreadable", lines |-> << >>]
TxtLines == << Spell("# text"), << >>, Spell(" *.txt ") >>
BuildLines == << Spell("build/"), Spell("build") >>

\* the states of a root's .gitignore file, and the file systems a load meets
FileStates == {NoFile, Unreadable, IgnoreFile(TxtLines), IgnoreFile(BuildLines)}
FileSystems == [Keys -> FileStates]

\* the rules are loaded at startup from one file system and loaded anew, as on
\* a .gitignore event, from another
ProbeLoad ==
    /\ probe = NoProbe
    /\ \E before \in FileSystems, now \in FileSystems :
          LET startup == load_gitignore_patterns(<< >>, before)
          IN  probe' = [op |-> "load",
                        in |-> [before |-> before, now |-> now, loaded |-> startup],
                        out |-> load_gitignore_patterns(startup, now)]
    /\ UNCHANGED watcher

LoadSpec == Init /\ [][ProbeLoad]_vars

\* ------------------------------------------------------------ event handlers
\* The events the observer delivers: path, kind, and whether the path is a
\* directory.
IgnoreFileName == ".gitignore"
EventEndings == {".lock", ".tmp", ".swp", ".swo", "~", ".bak"}
FileEvents ==
    { [src_path |-> repo_dir \o << IgnoreFileName >>, event_type |-> e,
       is_directory |-> FALSE] : e \in EventTypes }
    \cup { [src_path |-> submodules[1] \o << IgnoreFileName >>, event_type |-> e,
            is_directory |-> FALSE] : e \in EventTypes }
    \cup { [src_path |-> repo_dir \o << "build" >>, event_type |-> e,
            is_directory |-> TRUE] : e \in EventTypes }
    \cup { [src_path |-> repo_dir \o << "bashrc" >>, event_type |-> "modified",
            is_directory |-> FALSE],
           [src_path |-> submodules[2] \o << "zshrc" >>, event_type |-> "modified",
            is_directory |-> FALSE],
           [src_path |-> submodules[1] \o << "a.txt" >>, event_type |-> "created",
            is_directory |-> FALSE],
           [src_path |-> submodules[1] \o << "a.txt" >>, event_type |-> "deleted",
            is_directory |-> FALSE] }
    \cup { [src_path |-> dir \o << "a" \o ending >>, event_type |-> e,
            is_directory |-> FALSE] :
              dir \in {repo_dir, submodules[1]}, ending \in EventEndings,
              e \in EventTypes }

\* the file system changes: the .gitignore file of a root is written or removed
WriteIgnoreFile(root, file) ==
    /\ pc[Main] = "run"
    /\ gitignore_files[root] # file
    /\ gitignore_files' = [gitignore_files EXCEPT ![root] = file]
    /\ UNCHANGED <<gitignore_patterns, event, respect_gitignore>>
    /\ UNCHANGED <<pending_commits, commit_timers, timer_lock, fetch_timer, timers, pc,
                   call, cleanup_iter, cmds, commits, recorded, fetch_timers, poll,
                   polled, probe>>

\* the observer's dispatch thread takes an event from its queue and calls the
\* handler method of the event's kind
Dispatch(ev) ==
    /\ pc[Main] = "run"
    /\ pc[Event] = "idle"
    /\ Len(recorded) < MaxHandled
    /\ event' = ev
    /\ pc' = [pc EXCEPT ![Event] = "handler"]
    /\ UNCHANGED <<gitignore_patterns, gitignore_files, respect_gitignore>>
    /\ UNCHANGED <<pending_commits, commit_timers, timer_lock, fetch_timer, timers,
                   call, cleanup_iter, cmds, commits, recorded, fetch_timers, poll,
                   polled, probe>>

\* the arguments schedule_commit works with once it has determined the target
\* directory and the commit kind of the path
schedule_commit_call(file_path, event_type) ==
    LET in_sub == is_in_submodule(file_path)
    IN  [id |-> Len(recorded) + 1, file_path |-> file_path, event_type |-> event_type,
         target_dir |-> IF in_sub THEN get_submodule_for_file(file_path) ELSE repo_dir,
         commit_type |-> IF in_sub THEN "submodule" ELSE "main"]

\* a slip: an excluded file is offered to the scheduler as any other
offered_excluded(ev, excluded) == ~ev.is_directory

\* the handler goes on to schedule_commit: a file event whose path the
\* classifier does not exclude
offered(ev, excluded) == ~ev.is_directory /\ ~excluded

\* the handler's effect: reload tells whether the rules are loaded anew, record
\* whether schedule_commit is called
Handle(reload, record) ==
    /\ gitignore_patterns' =
          IF reload THEN load_gitignore_patterns(gitignore_patterns, gitignore_files)
          ELSE gitignore_patterns
    /\ call' = IF record THEN schedule_commit_call(event.src_path, event.event_type)
               ELSE NoCall
    /\ pc' = [pc EXCEPT ![Event] = IF record THEN "sched_lock" ELSE "idle"]
    /\ event' = NoEvent
    /\ UNCHANGED <<gitignore_files, respect_gitignore>>
    /\ UNCHANGED <<pending_commits, commit_timers, timer_lock, fetch_timer, timers,
                   cleanup_iter, cmds, commits, recorded, fetch_timers, poll,
                   polled, probe>>

\* the path of the event ends in ".gitignore"
is_gitignore(ev) == endswith(abs_str(ev.src_path), ".gitignore")

\* on_modified: a modified .gitignore reloads the rules and nothing else
OnModified ==
    /\ pc[Event] = "handler"
    /\ event.event_type = "modified"
    /\ \E is_dir \in BOOLEAN :
          LET reload == ~event.is_directory /\ is_gitignore(event)
              excluded == should_exclude_file(event.src_path, gitignore_patterns, is_dir)
          IN  Handle(reload, ~reload /\ offered(event, excluded))

\* on_created: a created .gitignore reloads the rules and is scheduled without
\* being classified
OnCreated ==
    /\ pc[Event] = "handler"
    /\ event.event_type = "created"
    /\ \E is_dir \in BOOLEAN :
          LET reload == ~event.is_directory /\ is_gitignore(event)
              excluded == should_exclude_file(event.src_path, gitignore_patterns, is_dir)
          IN  Handle(reload, reload \/ offered(event, excluded))

\* on_deleted: every file is classified, a .gitignore as any other
OnDeleted ==
    /\ pc[Event] = "handler"
    /\ event.event_type = "deleted"
    /\ \E is_dir \in BOOLEAN :
          LET excluded == should_exclude_file(event.src_path, gitignore_patterns, is_dir)
          IN  Handle(FALSE, offered(event, excluded))

\* The event handlers and the recording of the changes they pass on; timers do
\* not fire.
HandlerNext ==
    \/ \E ev \in FileEvents : Dispatch(ev)
    \/ OnModified
    \/ OnCreated
    \/ OnDeleted
    \/ ScheduleBody
    \/ \E root \in {repo_dir, submodules[1]} :
          \E file \in {NoFile, IgnoreFile(TxtLines)} : WriteIgnoreFile(root, file)

HandlerSpec == Init /\ [][HandlerNext]_vars

\* __init__: the rules are loaded at startup only if respect_gitignore is set
startup_patterns(respect, files) ==
    IF respect THEN load_gitignore_patterns(<< >>, files) ELSE << >>

\* The handler constructed with either setting of respect_gitignore, in a
\* file system that may hold .gitignore files already.
ConfiguredInit ==
    /\ pending_commits = << >>
    /\ commit_timers = << >>
    /\ timer_lock = Free
    /\ fetch_timer = 1
    /\ fetch_timers = << NewFetchTimer >>
    /\ poll = << >>
    /\ polled = << >>
    /\ probe = NoProbe
    /\ timers = << >>
    /\ pc = [th \in Threads |->
               IF th = Main THEN "run" ELSE IF th = Event THEN "idle" ELSE "unborn"]
    /\ call = NoCall
    /\ cleanup_iter = NoIter
    /\ cmds = << >>
    /\ commits = << >>
    /\ recorded = << >>
    /\ event = NoEvent
    /\ respect_gitignore \in BOOLEAN
    /\ gitignore_files \in
          {fs \in [Keys -> {NoFile, IgnoreFile(TxtLines)}] : fs[submodules[2]] = NoFile}
    /\ gitignore_patterns = startup_patterns(respect_gitignore, gitignore_files)

ConfiguredSpec == ConfiguredInit /\ [][HandlerNext]_vars

\* The poller and the shutdown, no file events.
PollNext ==
    \/ Tick
    \/ \E i \in 1..MaxCycles : PollFire(i)
    \/ \E i \in 1..MaxCycles : PollCheckMain(i)
    \/ \E i \in 1..MaxCycles : PollCheckSubmodule(i)
    \/ \E i \in 1..MaxCycles : PollNotify(i)
    \/ \E i \in 1..MaxCycles : PollRaise(i)
    \/ \E i \in 1..MaxCycles : PollFinally(i)
    \/ Interrupt
    \/ CleanupEnter
    \/ CleanupLoop
    \/ Exit

PollSpec == Init /\ [][PollNext]_vars

\* The watcher while it keeps running, scheduler and poller together, with one
\* change recorded.
WatchNext ==
    \/ Tick
    \/ \E ev \in Events :
          recorded = << >> /\ ScheduleCall(ev.src_path, ev.event_type)
    \/ ScheduleRaise
    \/ ScheduleBody
    \/ \E i \in 1..MaxChanges : TimerFire(i)
    \/ \E th \in Threads : ExecEnter(th)
    \/ \E th \in Threads : CommitSquashedSubmodule(th)
    \/ \E th \in Threads : CommitSubmoduleUpdate(th)
    \/ \E th \in Threads : CommitSquashedMainRepo(th)
    \/ \E th \in Threads : ExecFinally(th)
    \/ \E i \in 1..MaxCycles : PollFire(i)
    \/ \E i \in 1..MaxCycles : PollCheckMain(i)
    \/ \E i \in 1..MaxCycles : PollCheckSubmodule(i)
    \/ \E i \in 1..MaxCycles : PollNotify(i)
    \/ \E i \in 1..MaxCycles : PollRaise(i)
    \/ \E i \in 1..MaxCycles : PollFinally(i)

\* the steps the threads take by themselves; events and exceptions are the
\* environment's
WatchSteps ==
    \/ RunSteps
    \/ \E i \in 1..MaxCycles : PollFire(i)
    \/ \E i \in 1..MaxCycles : PollCheckMain(i)
    \/ \E i \in 1..MaxCycles : PollCheckSubmodule(i)
    \/ \E i \in 1..MaxCycles : PollNotify(i)
    \/ \E i \in 1..MaxCycles : PollFinally(i)

WatchSpec == Init /\ [][WatchNext]_vars /\ WF_vars(WatchSteps)

\* ------------------------------------------------------ notions of the claims
\* a commit sequence is executing: a thread is between the start of the try
\* block and the end of the finally block
InSequence(th) == pc[th] \in {"exec_try", "exec_update", "exec_finally"}
Running == timer_lock # Free /\ InSequence(timer_lock)

\* the batch of the commit sequence in progress
RunningBatch == pending_commits[ExecKey(timer_lock)]

\* the commit sequences that were given change c
SequencesOf(c) == {n \in DOMAIN commits : c \in Range(commits[n].changes)}

\* the change is in the batch map
InBatch(c) ==
    \E k \in DOMAIN pending_commits :
       \E n \in DOMAIN pending_commits[k].changes : pending_commits[k].changes[n].id = c

\* the armed quiet-period timers of a key
ArmedTimers(k) == {i \in DOMAIN timers : timers[i].key = k /\ Armed(i)}

\* the changes of a commit sequence came close together: each was recorded
\* less than the quiet period after the one before it
Burst(s) == \A n \in 2..Len(s.changes) : recorded[s.changes[n]].close

\* the change recorded before change j for the same key, 0 if none
PrevOf(j) ==
    LET same == {i \in 1..(j - 1) : recorded[i].key = recorded[j].key}
    IN  IF same = {} THEN 0 ELSE CHOOSE i \in same : \A n \in same : n <= i

\* -------------------------------------------------------------------- claims

\* C1: the changes of one key that were recorded less than the quiet period
\* apart go to one commit sequence, which holds all of them and starts only
\* when the quiet period has passed since the last of them was recorded.
C1_QuietPeriodCommit ==
    /\ \A n \in DOMAIN commits :
          Burst(commits[n]) => commits[n].quiet
    /\ \A j \in DOMAIN recorded :
          recorded[j].close
             => /\ SequencesOf(PrevOf(j)) \subseteq SequencesOf(j)
                /\ SequencesOf(j) \subseteq SequencesOf(PrevOf(j))

\* C5: no key ever has two armed quiet-period timers (the batch map holds at
\* most one batch per key by construction).
C5_OneArmedTimerPerKey ==
    \A k \in Keys : Cardinality(ArmedTimers(k)) <= 1

\* positions in the log of the sequence in progress of a command in a repository
Pos(repo, cmd) == {n \in DOMAIN cmds : cmds[n].repo = repo /\ cmds[n].cmd = cmd}
Before(A, B) == \A a \in A, b \in B : a < b

\* C7: in a sub-repository batch's commit sequence every command in the
\* primary repository comes after a successful commit in the sub-repository,
\* and the order is sub-repository commit, sub-repository push, primary
\* stage, primary commit, primary push.
C7_SubThenPrimaryOrder ==
    (Running /\ RunningBatch.commit_type = "submodule") =>
       LET sub == RunningBatch.target_dir
       IN  /\ \A n \in DOMAIN cmds :
                 cmds[n].repo = repo_dir =>
                    \E m \in 1..(n - 1) : cmds[m] = Cmd(sub, "commit", "ok")
           /\ Before(Pos(sub, "commit"), Pos(sub, "push"))
           /\ Before(Pos(sub, "push"), Pos(repo_dir, "add"))
           /\ Before(Pos(repo_dir, "add"), Pos(repo_dir, "commit"))
           /\ Before(Pos(repo_dir, "commit"), Pos(repo_dir, "push"))

\* C8: a commit that answers "nothing to commit" is the last command of its
\* commit sequence.
C8_NothingToCommitStops ==
    \A n \in DOMAIN cmds :
       (cmds[n].cmd = "commit" /\ cmds[n].res = "nothing") => n = Len(cmds)

\* C9: a stage, commit or push that ends with a non-zero status is the last
\* command of its commit sequence.
C9_FailedStepAborts ==
    \A n \in DOMAIN cmds :
       (cmds[n].cmd \in {"add", "commit", "push"} /\ cmds[n].res = "fail")
          => n = Len(cmds)

\* the batches in the map that hold a change
NonEmptyBatches == {k \in DOMAIN pending_commits : pending_commits[k].changes # << >>}

\* C2: when cleanup runs with two or more non-empty batches pending, the
\* process comes to its exit with every recorded change given to a commit
\* sequence and the batch map empty.
C2_ShutdownFlushesAll ==
    (timer_lock = Main /\ Cardinality(NonEmptyBatches) >= 2)
       ~> (/\ pc[Main] = "exit"
           /\ DOMAIN pending_commits = {}
           /\ \A c \in DOMAIN recorded : SequencesOf(c) # {})

\* C3: after the interrupt the main thread reaches its exit.
C3_DrainTerminates ==
    (pc[Main] # "run") ~> (pc[Main] = "exit")

\* the key a thread waits for timer_lock with
Waits(th, k) ==
    \/ th = Event /\ pc[Event] = "sched_lock" /\ call.target_dir = k
    \/ th # Event /\ th # Main /\ pc[th] = "exec_lock" /\ timers[th[2]].key = k

\* C4 as stated: while a commit sequence of one key executes, no record call
\* and no timer callback of another key is kept waiting by it.
C4_NeverDelaysOtherKey ==
    Running =>
       \A th \in Threads, k \in Keys : Waits(th, k) => k = ExecKey(timer_lock)

\* C4 as amended: a commit sequence holds changes of its own key only, and no
\* step taken while a commit sequence of one key executes, whatever its
\* commands answer, alters the batch or the timer entry of another key or
\* stops an armed timer of another key.
C4_OtherKeyUntouched ==
    /\ [](\A n \in DOMAIN commits :
             \A c \in Range(commits[n].changes) : recorded[c].key = commits[n].key)
    /\ [][Running =>
            \A k \in Keys \ {ExecKey(timer_lock)} :
               /\ (k \in DOMAIN pending_commits) = (k \in DOMAIN pending_commits')
               /\ k \in DOMAIN pending_commits => pending_commits'[k] = pending_commits[k]
               /\ (k \in DOMAIN commit_timers) = (k \in DOMAIN commit_timers')
               /\ k \in DOMAIN commit_timers => commit_timers'[k] = commit_timers[k]
               /\ \A i \in ArmedTimers(k) : ~timers'[i].finished]_vars

\* C4, its case: a commit sequence of one key has had a command fail while
\* the other key has a batch and an armed timer and a record call waiting.
C4_Witness ==
    /\ Running
    /\ pc[timer_lock] = "exec_finally"
    /\ \E n \in DOMAIN cmds : cmds[n].res # "ok"
    /\ \E k \in Keys \ {ExecKey(timer_lock)} :
          /\ k \in DOMAIN pending_commits
          /\ ArmedTimers(k) # {}
          /\ Waits(Event, k)

\* C6: while the watcher runs, a recorded change is in its batch until a commit
\* sequence has been given it, is given to at most one commit sequence, and
\* again and again every change recorded so far has been given to one.
C6_EveryChangeCommittedOnce ==
    /\ [](\A c \in DOMAIN recorded :
             /\ Cardinality(SequencesOf(c)) <= 1
             /\ InBatch(c) \/ SequencesOf(c) # {})
    /\ []<>(\A c \in DOMAIN recorded : SequencesOf(c) # {})

\* C6, its case: a batch of two changes was given to a commit sequence that
\* has ended, and a later change is in a commit sequence of its own.
C6_Witness ==
    /\ Len(commits) >= 2
    /\ Len(commits[1].changes) >= 2
    /\ ~Running
    /\ \A c \in DOMAIN recorded : SequencesOf(c) # {}

\* C10: the step that ends a commit sequence, completed or aborted, leaves the
\* key in neither map, and no change is given to a second commit sequence.
C10_ClearedNoRetry ==
    /\ [][\A th \in Threads :
            (InSequence(th) /\ ~InSequence(th)')
               => /\ ExecKey(th) \notin DOMAIN pending_commits'
                  /\ ExecKey(th) \notin DOMAIN commit_timers']_vars
    /\ [](\A m, n \in DOMAIN commits :
             m # n => Range(commits[m].changes) \cap Range(commits[n].changes) = {})

\* C10, its case: a commit sequence has ended, its key is in neither map, and
\* a timer of that key, armed while the callback waited for the lock, is still
\* to fire.
C10_Witness ==
    /\ ~Running
    /\ commits # << >>
    /\ Last(commits).key \notin DOMAIN pending_commits
    /\ Last(commits).key \notin DOMAIN commit_timers
    /\ ArmedTimers(Last(commits).key) # {}

\* ---------------------------------------------------------- claims, poller
ArmedFetchTimers == {i \in DOMAIN fetch_timers : ArmedFetch(i)}
ArmedCommitTimers == {i \in DOMAIN timers : Armed(i)}

\* C11: once cleanup has returned, no quiet-period timer and no poll timer is
\* armed any more, so that nothing starts afterwards, whatever was in flight
\* while cleanup ran.
C11_NoTimerArmedAfterCleanup ==
    pc[Main] \in {"join", "exit"} =>
        ArmedCommitTimers = {} /\ ArmedFetchTimers = {}

\* C12: at most one poll timer is armed and at most one poll cycle executes,
\* never both at a time, and a poll timer is created only by the step that
\* ends a cycle, with the full interval ahead of it.
C12_PollCyclesNeverOverlap ==
    /\ [](/\ Cardinality(ArmedFetchTimers) <= 1
          /\ Cardinality(DOMAIN poll) <= 1
          /\ ArmedFetchTimers # {} => DOMAIN poll = {})
    /\ [][Len(fetch_timers') > Len(fetch_timers) =>
            /\ DOMAIN poll # {}
            /\ DOMAIN poll' = {}
            /\ Len(fetch_timers') = Len(fetch_timers) + 1
            /\ Last(fetch_timers') = NewFetchTimer]_vars

\* a second cycle executes after the first has ended and the timer it armed
\* has fired
C12_Witness ==
    /\ fetch_timers[1].pc = "done"
    /\ 2 \in DOMAIN poll
    /\ poll[2].pc = "subs"

\* C13: the watcher comes to rest again and again, whatever was raised: no
\* poll cycle in progress, timer_lock released, the dispatch thread back from
\* its record call; the step that ends a poll cycle arms the next poll timer;
\* and no thread of the watcher is brought down.
C13_PollerKeepsRunning ==
    /\ []<>(DOMAIN poll = {} /\ timer_lock = Free /\ pc[Event] = "idle")
    /\ [][\A i \in DOMAIN poll :
             i \notin DOMAIN poll' =>
                 /\ fetch_timer' = Len(fetch_timers')
                 /\ Last(fetch_timers') = NewFetchTimer]_vars
    /\ [](\A th \in Threads : pc[th] # "crashed")

\* a cycle ended by an exception has armed the next timer, and a command has
\* raised in a commit sequence that holds the lock
C13_Witness ==
    /\ Len(fetch_timers) = 2
    /\ ArmedFetch(2)
    /\ polled # << >>
    /\ Last(polled).what = "raise"
    /\ Running
    /\ \E n \in DOMAIN cmds : cmds[n].res = "raise"

\* every command of the check ran to an answer: fetch and listing succeeded,
\* no command raised, and rev-list succeeded for every branch with a remote
CommandsRan(facts) ==
    /\ facts.fetch = "ok"
    /\ facts.list = "ok"
    /\ \A b \in Range(facts.branches) \ {""} :
          /\ facts.remote[b] # "raise"
          /\ facts.remote[b] = "ok" => facts.rev[b] = "ok"

\* the branches with a remote counterpart that is ahead
Diverged(facts) ==
    {b \in Range(facts.branches) \ {""} : facts.remote[b] = "ok" /\ facts.count[b] > 0}

\* C14: the check of a repository yields one record for each listed branch
\* that has an origin/<branch> and a positive count, with that count, and no
\* other record.
C14_DivergenceRecords ==
    (probe.op = "check" /\ CommandsRan(probe.in)) =>
        /\ {probe.out[n].branch : n \in DOMAIN probe.out} = Diverged(probe.in)
        /\ Len(probe.out) = Cardinality(Diverged(probe.in))
        /\ \A n \in DOMAIN probe.out :
              /\ probe.out[n].commits = probe.in.count[probe.out[n].branch]
              /\ probe.out[n].repo = repo_name(repo_dir)

\* main is 3 commits behind origin/main, dev has no origin/dev
C14_Witness ==
    /\ probe.op = "check"
    /\ CommandsRan(probe.in)
    /\ probe.in.branches = <<"main", "dev">>
    /\ probe.in.remote["main"] = "ok"
    /\ probe.in.count["main"] = 3
    /\ probe.in.remote["dev"] = "fail"
    /\ probe.out = << [branch |-> "main", commits |-> 3, repo |-> repo_name(repo_dir)] >>

\* the repositories in the order of a poll cycle
RepoOrder ==
    << repo_name(repo_dir) >> \o [i \in 1..Len(submodules) |-> repo_name(submodules[i])]

\* the records found by the checks of a poll history, in order
RECURSIVE Found(_)
Found(h) ==
    IF h = << >> THEN << >>
    ELSE (IF Head(h).what = "check" THEN Head(h).changes ELSE << >>) \o Found(Tail(h))

\* C15: the n-th check of a cycle is that of the n-th repository in the order
\* primary, submodules as discovered; a check whose fetch failed yields no
\* record; and when the loop is over every repository has been checked.
C15_OrderAndFetchFailure ==
    /\ \A n \in DOMAIN polled :
          polled[n].what = "check" =>
              /\ n <= Len(RepoOrder)
              /\ polled[n].repo = RepoOrder[n]
              /\ polled[n].fetch # "ok" => polled[n].changes = << >>
    /\ \A i \in DOMAIN poll :
          poll[i].pc = "notify" =>
              /\ Len(polled) = Len(RepoOrder)
              /\ \A n \in DOMAIN polled : polled[n].what = "check"

\* the fetch of the primary repository failed and a later repository was
\* checked and found diverged
C15_Witness ==
    /\ \E i \in DOMAIN poll : poll[i].pc = "notify"
    /\ Len(polled) = Len(RepoOrder)
    /\ polled[1].fetch = "fail"
    /\ polled[3].changes # << >>

Notifications == {n \in DOMAIN polled : polled[n].what = "notify"}

\* the cycle begun last has left its try block without an exception
CycleOver ==
    /\ polled # << >>
    /\ \A i \in DOMAIN poll : poll[i].pc = "finally"
    /\ \A n \in DOMAIN polled : polled[n].what # "raise"

\* C16: a cycle sends at most one notification, only after the checks of all
\* repositories, holding all records found; a cycle that is over has sent
\* one exactly if a record was found.
C16_OneNotification ==
    /\ Cardinality(Notifications) <= 1
    /\ \A n \in Notifications :
          /\ n = Len(RepoOrder) + 1
          /\ polled[n].changes = Found(polled)
          /\ Found(polled) # << >>
    /\ CycleOver => (Notifications # {} <=> Found(polled) # << >>)

\* a cycle is over that found records in two repositories and sent one
\* notification
C16_Witness ==
    /\ CycleOver
    /\ Notifications # {}
    /\ \E n \in Notifications :
          \E a, b \in DOMAIN polled[n].changes :
             polled[n].changes[a].repo # polled[n].changes[b].repo

\* ------------------------------------------------- claims, commit message
\* the status of a path as the repository and the file system have it
Status(f, facts) ==
    IF facts.exists[f] = "yes" /\ facts.tracked[f] = "ok" THEN "modified"
    ELSE IF facts.exists[f] = "yes" /\ facts.tracked[f] = "fail" THEN "added"
    ELSE IF facts.exists[f] = "no" /\ facts.tracked[f] = "ok" THEN "deleted"
    ELSE "none"

StatusGroup(in, kind) ==
    {f \in changed_files(in.changes) : Status(f, in.facts) = kind}

\* every query about every path of the batch was answered
Answered(in) ==
    \A f \in changed_files(in.changes) :
        in.facts.exists[f] # "raise" /\ in.facts.tracked[f] # "raise"

\* the tracked-file query could be run for no path of the batch
LookupUnavailable(in) ==
    /\ in.changes # << >>
    /\ \A f \in changed_files(in.changes) :
          in.facts.tracked[f] = "raise" /\ in.facts.exists[f] # "raise"

\* the fragment of a group: "<verb> <name>" for one member, "<verb> N files"
\* for several, nothing for none
Fragment(verb, group) ==
    IF group = {} THEN << >>
    ELSE IF Cardinality(group) = 1 THEN << verb, Last(CHOOSE f \in group : TRUE) >>
    ELSE << verb, Numeral(Cardinality(group)), "files" >>

\* the fragments in the order added, modified, deleted, joined by ", "
Rendered(a, m, d) ==
    LET sep(x, y) == IF x # << >> /\ y # << >> THEN << "," >> ELSE << >>
    IN  a \o sep(a, m \o d) \o m \o sep(m, d) \o d

\* C17: with the groups synthesize has formed, the message is the fragments of
\* the non-empty groups in the order added, modified, deleted, joined by
\* ", ", then "in <location>".
C17_VerbGroupsInOrder ==
    (probe.op = "synth" /\ Answered(probe.in)) =>
        LET a == Fragment("add", git_changes(probe.in.changes, probe.in.facts, "added"))
            m == Fragment("update", git_changes(probe.in.changes, probe.in.facts, "modified"))
            d == Fragment("remove", git_changes(probe.in.changes, probe.in.facts, "deleted"))
        IN  Rendered(a, m, d) # << >> =>
                probe.out = Rendered(a, m, d) \o << "in", "main repo" >>

\* three distinct paths, two modified and one added
C17_Witness ==
    /\ probe.op = "synth"
    /\ Answered(probe.in)
    /\ Cardinality(StatusGroup(probe.in, "modified")) = 2
    /\ StatusGroup(probe.in, "added") = { <<"dotfiles", "a.txt">> }
    /\ probe.out = << "add", "a.txt", ",", "update", "2", "files", "in", "main repo" >>

\* C18: when the tracked-file query cannot be run, the message is made from
\* the recorded event kinds: "<event kind> <file name> in <location>" for one
\* change, the groups of the event kinds for several.
C18_FallbackToEventKinds ==
    (probe.op = "synth" /\ LookupUnavailable(probe.in)) =>
        probe.out = create_fallback_commit_message(probe.in.changes, "main repo")

\* how many paths a message counts under a verb
Counted(out, verb) ==
    IF out = << "update", "files", "in", "main repo" >> THEN 0
    ELSE LET at == {n \in DOMAIN out : out[n] = verb}
         IN  IF at = {} THEN 0
             ELSE LET n == CHOOSE x \in at : TRUE
                  IN  IF out[n + 2] = "files"
                      THEN CHOOSE k \in DOMAIN Numerals : Numerals[k] = out[n + 1]
                      ELSE 1

\* C19: every distinct path counts once, in the group of its status, however
\* often it was recorded; a path that is absent and untracked counts nowhere;
\* and with no path counted the message is "update files in <location>".
C19_DistinctPaths ==
    (probe.op = "synth" /\ Answered(probe.in)) =>
        /\ Counted(probe.out, "add") = Cardinality(StatusGroup(probe.in, "added"))
        /\ Counted(probe.out, "update") = Cardinality(StatusGroup(probe.in, "modified"))
        /\ Counted(probe.out, "remove") = Cardinality(StatusGroup(probe.in, "deleted"))
        /\ (StatusGroup(probe.in, "none") = changed_files(probe.in.changes)) =>
               probe.out = << "update", "files", "in", "main repo" >>

\* a path created, deleted again and never tracked, recorded with a path
\* modified twice
C19_Witness ==
    /\ probe.op = "synth"
    /\ Answered(probe.in)
    /\ Len(probe.in.changes) = 3
    /\ probe.in.changes[1].file_path = probe.in.changes[2].file_path
    /\ Status(probe.in.changes[1].file_path, probe.in.facts) = "modified"
    /\ probe.in.changes[3].event_type = "deleted"
    /\ Status(probe.in.changes[3].file_path, probe.in.facts) = "none"
    /\ probe.out = << "update", probe.in.changes[1].file_name, "in", "main repo" >>

\* ------------------------------------------------- claims, ignore patterns
\* the path of the probe relative to the primary repository, whose only
\* pattern is build/
BuildOnly ==
    /\ probe.op = "ignore"
    /\ ~is_in_submodule(probe.in.file_path)
    /\ probe.in.gitignore_patterns[repo_dir] = << <<"b", "u", "i", "l", "d", "/">> >>

RelOfProbe == SubSeq(probe.in.file_path, Len(repo_dir) + 1, Len(probe.in.file_path))

\* C20: under the pattern build/ a path with build among its ancestor
\* directories, at any depth, is excluded, and the file build at the
\* repository root is not.
C20_DirectoryPattern ==
    BuildOnly =>
        /\ (\E n \in 1..(Len(RelOfProbe) - 1) : RelOfProbe[n] = "build") => probe.out
        /\ (RelOfProbe = << "build" >> /\ ~probe.in.is_dir) => ~probe.out

\* ------------------------------------------------------------------- C21
\* the dispatch thread's handler returns or goes on to schedule_commit
HandlerActs == pc[Event] = "handler" /\ pc'[Event] # "handler"

\* the handler returns without a call of schedule_commit and leaves the batch
\* map, the timer map and every Timer as they are
Dropped ==
    /\ pc'[Event] = "idle"
    /\ call' = NoCall
    /\ UNCHANGED <<pending_commits, commit_timers, timers>>

TempEndings == {".lock", ".tmp", ".swp", ".swo", "~", ".bak"}
HasTempEnding(ev) ==
    /\ ev # NoEvent
    /\ ~ev.is_directory
    /\ \E ending \in TempEndings : endswith(Last(ev.src_path), ending)

RootsOver(file_path) ==
    {submodules[n] : n \in {m \in DOMAIN submodules :
                               is_relative_to(file_path, submodules[m])}}

C23_DetachedBeforeCommit ==
    /\ Running =>
          /\ ExecKey(timer_lock) \notin DOMAIN pending_commits
          /\ ExecKey(timer_lock) \notin DOMAIN commit_timers
    /\ \A i \in DOMAIN timers :
          (timer_lock = Tm(i) /\ InSequence(Tm(i))) =>
              \A n \in DOMAIN RunningBatch.changes : RunningBatch.changes[n].id <= i

\* ------------------------------------------------------------------- C24
\* C24: the batch map and the timer map change only in a step of the thread
\* that holds timer_lock, or, the lock being free, in a step that is a whole
\* locked block; never while another thread holds the lock.
C24_MutationsUnderLock ==
    [][(pending_commits' # pending_commits \/ commit_timers' # commit_timers) =>
          \/ timer_lock = Free /\ pc[Event] = "sched_lock" /\ pc'[Event] = "idle"
          \/ timer_lock # Free /\ pc'[timer_lock] # pc[timer_lock]]_vars

\* a record call waits for the lock while the commit sequence of its own key
\* executes
C24_Witness ==
    /\ Running
    /\ pc[Event] = "sched_lock"
    /\ call.target_dir = ExecKey(timer_lock)

\* ------------------------------------------------------------------- C25
IsIgnoreFileEvent(ev) ==
    ev # NoEvent /\ ~ev.is_directory /\ Last(ev.src_path) = IgnoreFileName

\* the rules are loaded anew from the files as they are now
Reloaded ==
    gitignore_patterns' = load_gitignore_patterns(gitignore_patterns, gitignore_files)

\* the handler passes the event's path and kind on to schedule_commit
PassedOn ==
    /\ pc'[Event] = "sched_lock"
    /\ call'.file_path = event.src_path
    /\ call'.event_type = event.event_type

\* C25: the handler of an event on a .gitignore file reloads the rules,
\* whatever the kind of the event; a created .gitignore is passed on to the
\* scheduler as well, a modified one is not; an event on a directory neither
\* reloads the rules nor records a change.
C25_IgnoreFileReloads ==
    [][HandlerActs =>
          /\ IsIgnoreFileEvent(event) => Reloaded
          /\ (IsIgnoreFileEvent(event) /\ event.event_type = "created") => PassedOn
          /\ (IsIgnoreFileEvent(event) /\ event.event_type = "modified") => Dropped
          /\ (event # NoEvent /\ event.is_directory) =>
                Dropped /\ gitignore_patterns' = gitignore_patterns]_vars

\* ------------------------------------------------------------------- C26
\* the non-empty, non-comment lines of the files explored, in file order
PatternsOf(file) ==
    IF file = IgnoreFile(TxtLines) THEN << Spell("*.txt") >>
    ELSE IF file = IgnoreFile(BuildLines) THEN << Spell("build/"), Spell("build") >>
    ELSE << >>

\* no pattern is in force for the root
NoPatterns(loaded, root) == root \notin DOMAIN loaded \/ loaded[root] = << >>

\* C26: after a reload every root whose .gitignore can be read has exactly the
\* patterns of the file as it is now, and a root whose .gitignore no longer
\* exists has none.
C26_ReloadReplaces ==
    probe.op = "load" =>
        \A root \in Keys :
            /\ probe.in.now[root].state = "file" =>
                  /\ root \in DOMAIN probe.out
                  /\ probe.out[root] = PatternsOf(probe.in.now[root])
            /\ probe.in.now[root].state = "absent" => NoPatterns(probe.out, root)

\* ------------------------------------------------------------------- C27
\* C27: after a load or reload that could not read a root's .gitignore, no
\* pattern is in force for that root.
C27_UnreadableMeansEmpty ==
    probe.op = "load" =>
        \A root \in Keys :
            probe.in.now[root].state = "unreadable" => NoPatterns(probe.out, root)

\* ------------------------------------------------------------------- C28
\* the group of a path by the sub-repository's own status: tracked and present
\* is modified, untracked and present added, tracked and absent deleted; when
\* the status cannot be had, modified if present, else deleted
SubStatus(f, in) ==
    LET e == in.exists[f]
        t == in.ls_files[in.submodule_dir][f]
    IN  IF t = "raise" THEN (IF e = "yes" THEN "modified" ELSE "deleted")
        ELSE IF e = "yes" /\ t = "ok" THEN "modified"
        ELSE IF e = "yes" /\ t = "fail" THEN "added"
        ELSE IF e = "no" /\ t = "ok" THEN "deleted"
        ELSE "none"

SubGroup(in, kind) == {f \in changed_files(in.changes) : SubStatus(f, in) = kind}

\* C28: the message of a sub-repository batch renders every distinct path in
\* the group of its status in the sub-repository.
C28_SubRepositoryStatus ==
    probe.op = "subsynth" =>
        LET a == Fragment("add", SubGroup(probe.in, "added"))
            m == Fragment("update", SubGroup(probe.in, "modified"))
            d == Fragment("remove", SubGroup(probe.in, "deleted"))
        IN  Rendered(a, m, d) # << >> =>
                probe.out = Rendered(a, m, d) \o << "in", Last(probe.in.submodule_dir) >>

\* ------------------------------------------------------------------- C29
\* the event is one the handler drops: an event on a directory, or an event
\* on a file, other than a .gitignore, that the classifier excludes
IsDropped(ev) ==
    /\ ev # NoEvent
    /\ \/ ev.is_directory
       \/ /\ ~IsIgnoreFileEvent(ev)
          /\ \A is_dir \in BOOLEAN :
                should_exclude_file(ev.src_path, gitignore_patterns, is_dir)

C30_NoOrphanTimer ==
    \A i \in DOMAIN timers :
        Armed(i) =>
            /\ timers[i].key \in DOMAIN pending_commits
            /\ timers[i].key \in DOMAIN commit_timers
            /\ commit_timers[timers[i].key] = i

\* ------------------------------------------------------------------- C31
\* the threads that are executing a commit sequence
Sequencing == {th \in Threads : InSequence(th)}

\* C31: at most one thread, timer callback or shutdown, is executing a commit
\* sequence at any time, and it is the thread that holds timer_lock, so the
\* commands logged between the start and the end of a sequence are those of
\* that one sequence.
C31_OneSequenceAtATime ==
    /\ Cardinality(Sequencing) <= 1
    /\ \A th \in Sequencing : timer_lock = th

\* a sub-repository sequence has issued commands while the timer callback of
\* the primary repository's batch waits for the lock
C31_Witness ==
    /\ Running
    /\ ExecKey(timer_lock) # repo_dir
    /\ cmds # << >>
    /\ \E i \in DOMAIN timers :
          /\ pc[Tm(i)] = "exec_lock"
          /\ timers[i].key = repo_dir
          /\ repo_dir \in DOMAIN pending_commits

\* ------------------------------------------------------------------- C32
\* C32: with respect_gitignore off no ignore pattern is ever loaded, and no
\* path of an event is excluded by an ignore pattern.
C32_ToggleOffNothingLoaded ==
    ~respect_gitignore =>
        /\ \A root \in Keys : NoPatterns(gitignore_patterns, root)
        /\ \A ev \in FileEvents, is_dir \in BOOLEAN :
              ~matches_gitignore(ev.src_path, gitignore_patterns, is_dir)

\* ------------------------------------------------------------------- C33
\* C33: whenever timer_lock is not held, commit_timers and pending_commits
\* have the same keys, and every batch of pending_commits holds at least one
\* change.
C33_MapsAgreeOutsideLock ==
    timer_lock = Free =>
        /\ DOMAIN commit_timers = DOMAIN pending_commits
        /\ \A k \in DOMAIN pending_commits : Len(pending_commits[k].changes) >= 1

C33_Witness ==
    /\ timer_lock = Free
    /\ commits # << >>
    /\ pending_commits # << >>
    /\ \E i \in DOMAIN timers : Armed(i) /\ timers[i].key \notin DOMAIN commit_timers

====
